---- MODULE Spec2Model ----
(***************************************************************************)
(* DFU object transfer of pc-ble-driver-js: DfuObjectWriter                *)
(* (api/dfu/dfuObjectWriter.js) and the DfuNotificationQueue it owns       *)
(* (dfuNotificationQueue.js), as one state machine.                        *)
(*                                                                         *)
(* JavaScript runs one callback at a time.  A macrotask (an adapter event, *)
(* a timer, the completion of a characteristic write) runs only when no    *)
(* promise reaction is queued; promise reactions (microtasks) run before   *)
(* the next macrotask.  pc names where the writeObject call in flight is:  *)
(* the values in Microtask are positions where a promise reaction of the   *)
(* call is queued, and only user code of the same turn (abort, setPrn,     *)
(* setMtuSize) can run before it.                                          *)
(***************************************************************************)
EXTENDS Integers, Sequences, FiniteSets, TLC

\* ------------------------------------------------------------------ bounds
MaxLen == 3          \* longest data buffer handed to writeObject
MaxArrivals == 2     \* notifications buffered ahead of a readNext, or delivered during one
TimeoutPolls == 1    \* poll intervals that fit in the timeout (timeout / pollInterval in readNext)
MaxCalls == 2        \* writeObject calls made on the one DfuObjectWriter

\* --------------------------------------------------------------- constants
DEFAULT_MTU_SIZE == 20

\* JavaScript's undefined: outside every byte, size and counter of the program.
undefined == 0 - 1

\* dfuConstants (required by both files; the values are the protocol's).
RESPONSE == 96
CALCULATE_CRC == 3
SELECT == 6
SUCCESS == 1
OPERATION_FAILED == 10

\* The characteristic the queue was constructed for, and another one of the adapter.
controlPointCharacteristicId == 1
packetCharacteristicId == 2

\* ------------------------------------------------------------------ inputs
MtuSizes == {2}
PrnValues == {1}
\* (offset, crc32) arguments of writeObject: left out, or a resumption point.
Resumes == {<<undefined, undefined>>, <<2, 7>>}

\* The data argument of writeObject: one buffer of each length, its bytes all
\* different, so that a packet lost, repeated or out of place shows.
DataSet == {[i \in 1..n |-> i] : n \in 0..MaxLen}

\* ------------------------------------------------- collaborators (not in src/)
\* util/arrayUtil splitArray: consecutive chunks of chunkSize, the last one shorter.
RECURSIVE splitArray(_, _)
splitArray(data, chunkSize) ==
    IF Len(data) = 0 THEN <<>>
    ELSE IF Len(data) <= chunkSize THEN <<data>>
    ELSE <<SubSeq(data, 1, chunkSize)>> \o splitArray(SubSeq(data, chunkSize + 1, Len(data)), chunkSize)

\* util/intArrayConv: little-endian bytes of a number and back.
intToArray(n) ==
    <<n % 256, (n \div 256) % 256, (n \div 65536) % 256, (n \div 16777216) % 256>>
RECURSIVE arrayToInt(_)
arrayToInt(a) ==
    IF Len(a) = 0 THEN 0 ELSE a[1] + 256 * arrayToInt(Tail(a))

\* Array.prototype.slice(from, to) on a 0-indexed array.
slice(a, from, to) ==
    LET hi == IF to < Len(a) THEN to ELSE Len(a)
    IN IF from >= hi THEN <<>> ELSE SubSeq(a, from + 1, hi)

\* a[i] of a 0-indexed array: undefined past its end.
At(a, i) == IF i < Len(a) THEN a[i + 1] ELSE undefined

\* DfuPacketWriter's running checksum over the bytes written: a 16-bit stand-in
\* for crc32(packet, previous).
RECURSIVE crc32Accumulate(_, _)
crc32Accumulate(crc, packet) ==
    IF Len(packet) = 0 THEN crc
    ELSE crc32Accumulate((31 * crc + Head(packet)) % 65521, Tail(packet))

\* DfuPacketWriter: setOffset / setCrc32 / setPrn on a fresh writer.
newPacketWriter(offset, crc32, prnValue) ==
    [offset   |-> IF offset = undefined THEN 0 ELSE offset,
     crc32    |-> IF crc32 = undefined THEN 0 ELSE crc32,
     prn      |-> prnValue,
     prnCount |-> 0]

\* DfuPacketWriter.writePacket, once the characteristic write has succeeded:
\* the running state moves on by the packet and the PRN counter by one.
packetWritten(w, packet) ==
    LET count == w.prnCount + 1
    IN [offset   |-> w.offset + Len(packet),
        crc32    |-> crc32Accumulate(w.crc32, packet),
        prn      |-> w.prn,
        prnCount |-> IF count = w.prn THEN 0 ELSE count]

NoError == [code |-> "", info |-> undefined]
Error(code, info) == [code |-> code, info |-> info]

NoProgress == [offset |-> undefined, crc32 |-> undefined]

\* What writePacket resolves with: the checkpoint when the PRN counter reached
\* prn, nothing otherwise.
progressOf(w, packet) ==
    IF w.prnCount + 1 = w.prn
    THEN [offset |-> w.offset + Len(packet), crc32 |-> crc32Accumulate(w.crc32, packet)]
    ELSE NoProgress

\* ------------------------------------------------------------------- state
VARIABLES
    abortFlag,       \* DfuObjectWriter._abort
    mtuSize,         \* DfuObjectWriter._mtuSize
    prn,             \* DfuObjectWriter._prn (undefined until setPrn)
    notifications,   \* DfuNotificationQueue._notifications
    listeners,       \* registrations of _onNotificationReceived on the adapter
    pc,              \* position of the writeObject call
    data,            \* the data argument of the call
    packets,         \* const packets of writeObject
    k,               \* index (from 1) of the packet the reduce chain is at
    written,         \* packets handed to packetWriter.writePacket, in order
    packetWriter,    \* the DfuPacketWriter of the call
    progressInfo,    \* what the last writePacket resolved with
    notification,    \* what readNext resolved with
    error,           \* the rejection on its way to the catch of writeObject
    settled,         \* what the promise of writeObject settled with
    elapsed,         \* poll intervals since readNext was called
    pollDue,         \* the setTimeout(wait, pollInterval) of the call has expired
    leaked,          \* poll loops of readNext calls that timed out, still rescheduling
    seen,            \* history: the notifications the pending readNext found buffered or got since
    readAt,          \* history: position in seen of the notification that settled readNext
    mtuUsed,         \* history: the _mtuSize writeObject split the data by
    resume,          \* history: the (offset, crc32) arguments of the call
    abortedEarly,    \* history: abort() came before the call had dispatched any packet
    abortedBefore,   \* history: abort() came before the call was made
    calls,           \* history: writeObject calls made
    starts,          \* history: startListening calls of this writeObject call
    stops            \* history: stopListening calls of this writeObject call

vars == <<abortFlag, mtuSize, prn, notifications, listeners, pc, data, packets, k, written,
          packetWriter, progressInfo, notification, error, settled, elapsed, pollDue,
          leaked, seen, readAt, mtuUsed, resume, abortedEarly, abortedBefore, calls,
          starts, stops>>

objectVars == <<abortFlag, mtuSize, prn>>
inputs == <<data, mtuUsed, resume>>
callVars == <<inputs, packets, written, packetWriter>>
timerVars == <<elapsed, pollDue>>
countVars == <<calls, starts, stops, abortedEarly, abortedBefore>>

Microtask == {"writePacket", "progress", "validate", "then", "catch"}
MacrotaskMayRun == pc \notin Microtask

Unsettled == [state |-> "pending", offset |-> undefined, crc32 |-> undefined, error |-> NoError]

\* ------------------------------------------------------ DfuNotificationQueue
Notification(instanceId, value) == [instanceId |-> instanceId, value |-> value]

\* Mutants of _parseNotification: one that passes over a failed response, one
\* that passes over a response to another operation, one that does not look at
\* the characteristic the notification came from.
parseNotificationSkipFailed(opCode, n) ==
    IF n.instanceId # controlPointCharacteristicId
    THEN [kind |-> "null", value |-> <<>>, error |-> NoError]
    ELSE IF At(n.value, 0) = RESPONSE
    THEN IF At(n.value, 1) = opCode
         THEN IF At(n.value, 2) = SUCCESS
              THEN [kind |-> "value", value |-> n.value, error |-> NoError]
              ELSE [kind |-> "null", value |-> <<>>, error |-> NoError]
         ELSE [kind |-> "throw", value |-> <<>>,
               error |-> Error("UNEXPECTED_NOTIFICATION", At(n.value, 1))]
    ELSE [kind |-> "null", value |-> <<>>, error |-> NoError]

parseNotificationSkipOthers(opCode, n) ==
    IF n.instanceId # controlPointCharacteristicId
    THEN [kind |-> "null", value |-> <<>>, error |-> NoError]
    ELSE IF At(n.value, 0) = RESPONSE /\ At(n.value, 1) = opCode
    THEN IF At(n.value, 2) = SUCCESS
         THEN [kind |-> "value", value |-> n.value, error |-> NoError]
         ELSE [kind |-> "throw", value |-> <<>>,
               error |-> Error("COMMAND_ERROR", At(n.value, 2))]
    ELSE [kind |-> "null", value |-> <<>>, error |-> NoError]

parseNotificationAnyChannel(opCode, n) ==
    IF At(n.value, 0) = RESPONSE
    THEN IF At(n.value, 1) = opCode
         THEN IF At(n.value, 2) = SUCCESS
              THEN [kind |-> "value", value |-> n.value, error |-> NoError]
              ELSE [kind |-> "throw", value |-> <<>>,
                    error |-> Error("COMMAND_ERROR", At(n.value, 2))]
         ELSE [kind |-> "throw", value |-> <<>>,
               error |-> Error("UNEXPECTED_NOTIFICATION", At(n.value, 1))]
    ELSE [kind |-> "null", value |-> <<>>, error |-> NoError]

\* _parseNotification: null, the value, or a throw.
parseNotification(opCode, n) ==
    IF n.instanceId # controlPointCharacteristicId
    THEN [kind |-> "null", value |-> <<>>, error |-> NoError]
    ELSE IF At(n.value, 0) = RESPONSE
    THEN IF At(n.value, 1) = opCode
         THEN IF At(n.value, 2) = SUCCESS
              THEN [kind |-> "value", value |-> n.value, error |-> NoError]
              ELSE [kind |-> "throw", value |-> <<>>,
                    error |-> Error("COMMAND_ERROR", At(n.value, 2))]
         ELSE [kind |-> "throw", value |-> <<>>,
               error |-> Error("UNEXPECTED_NOTIFICATION", At(n.value, 1))]
    ELSE [kind |-> "null", value |-> <<>>, error |-> NoError]

\* _findNotification on buffer buf: shifts notifications off the head until one
\* parses to a value or throws; taken counts the notifications shifted.
RECURSIVE findNotification(_, _)
findNotification(opCode, buf) ==
    IF Len(buf) = 0
    THEN [kind |-> "none", value |-> <<>>, error |-> NoError, rest |-> <<>>, taken |-> 0]
    ELSE LET r == parseNotification(opCode, Head(buf))
         IN IF r.kind = "null"
            THEN LET f == findNotification(opCode, Tail(buf))
                 IN [f EXCEPT !.taken = @ + 1]
            ELSE [kind |-> r.kind, value |-> r.value, error |-> r.error,
                  rest |-> Tail(buf), taken |-> 1]

\* ----------------------------------------------------------------- adapter
\* The checkpoint the device is due to report next: the packet writer's state
\* once the write in flight, if any, has gone through.
deviceState ==
    IF pc = "writing"
    THEN [offset |-> packetWriter.offset + Len(packets[k]),
          crc32  |-> crc32Accumulate(packetWriter.crc32, packets[k])]
    ELSE [offset |-> packetWriter.offset, crc32 |-> packetWriter.crc32]

Response(opCode, result, offset, crc32) ==
    <<RESPONSE, opCode, result>> \o intToArray(offset) \o intToArray(crc32)

\* What the adapter may emit as characteristicValueChanged: checkpoint responses
\* that agree or disagree with the device state, a response to another
\* operation, a failed response, a notification with another marker, and a
\* notification of another characteristic that reads like a failed response.
Emitted ==
    LET d == deviceState
        good(o, c) == Notification(controlPointCharacteristicId,
                                   Response(CALCULATE_CRC, SUCCESS, o, c))
    IN {good(d.offset, d.crc32), good(d.offset, d.crc32 + 1), good(d.offset + 1, d.crc32 + 1),
        Notification(controlPointCharacteristicId, <<RESPONSE, SELECT, SUCCESS>>),
        Notification(controlPointCharacteristicId, <<RESPONSE, CALCULATE_CRC, OPERATION_FAILED>>),
        Notification(controlPointCharacteristicId, <<CALCULATE_CRC, SELECT, OPERATION_FAILED>>),
        Notification(packetCharacteristicId, <<RESPONSE, CALCULATE_CRC, OPERATION_FAILED>>)}

\* _onNotificationReceived, once per registration of the listener.
RECURSIVE pushTimes(_, _, _)
pushTimes(buf, n, times) ==
    IF times = 0 THEN buf ELSE pushTimes(Append(buf, n), n, times - 1)

onNotificationReceived(n) ==
    /\ MacrotaskMayRun
    /\ listeners > 0
    /\ Len(IF pc = "reading" THEN seen ELSE notifications) < MaxArrivals
    /\ notifications' = pushTimes(notifications, n, listeners)
    /\ seen' = (IF pc = "reading" THEN pushTimes(seen, n, listeners) ELSE seen)
    /\ UNCHANGED <<objectVars, callVars, listeners, pc, k, progressInfo, notification, error,
                   settled, timerVars, leaked, readAt, countVars>>

\* ----------------------------------------------------------- DfuObjectWriter
setPrn(n) ==
    /\ prn' = n
    /\ UNCHANGED <<abortFlag, mtuSize, notifications, listeners, pc, callVars, k, progressInfo,
                   notification, error, settled, timerVars, leaked, seen, readAt,
                   countVars>>

\* Mutant of setMtuSize: the call in flight is split again.
setMtuSizeResplits(n) ==
    /\ mtuSize' = n
    /\ packets' = splitArray(data, n)
    /\ UNCHANGED <<abortFlag, prn, notifications, listeners, pc, inputs, written, packetWriter, k,
                   progressInfo, notification, error, settled, timerVars, leaked, seen, readAt,
                   countVars>>

setMtuSize(n) ==
    /\ mtuSize' = n
    /\ UNCHANGED <<abortFlag, prn, notifications, listeners, pc, callVars, k, progressInfo,
                   notification, error, settled, timerVars, leaked, seen, readAt,
                   countVars>>

abort ==
    /\ abortFlag' = TRUE
    /\ abortedEarly' = (abortedEarly \/ (pc \notin {"idle", "done"} /\ Len(written) = 0))
    /\ UNCHANGED <<mtuSize, prn, notifications, listeners, pc, callVars, k, progressInfo,
                   notification, error, settled, timerVars, leaked, seen, readAt,
                   calls, starts, stops, abortedBefore>>

\* Mutant of _createPacketWriter: the writer starts afresh whatever the arguments.
createPacketWriterFresh(offset, crc32) == newPacketWriter(undefined, undefined, prn)

\* _createPacketWriter
createPacketWriter(offset, crc32) == newPacketWriter(offset, crc32, prn)

\* writeObject, up to the promise it returns: split, create the writer, start
\* listening, build the chain of _writePacket reactions.
writeObject(d, offset, crc32) ==
    /\ pc \in {"idle", "done"}
    /\ calls < MaxCalls
    /\ data' = d
    /\ mtuUsed' = mtuSize
    /\ resume' = <<offset, crc32>>
    /\ abortedEarly' = abortFlag
    /\ abortedBefore' = abortFlag
    /\ packets' = splitArray(d, mtuSize)
    /\ packetWriter' = createPacketWriter(offset, crc32)
    /\ listeners' = listeners + 1
    /\ pc' = IF Len(splitArray(d, mtuSize)) = 0 THEN "then" ELSE "writePacket"
    /\ k' = 1
    /\ written' = <<>>
    /\ progressInfo' = NoProgress
    /\ notification' = <<>>
    /\ error' = NoError
    /\ settled' = Unsettled
    /\ elapsed' = 0
    /\ pollDue' = FALSE
    /\ seen' = <<>>
    /\ readAt' = 0
    /\ calls' = calls + 1
    /\ starts' = 1
    /\ stops' = 0
    /\ UNCHANGED <<objectVars, notifications, leaked>>

\* Mutant of _checkAbortState: the flag is not looked at.
checkAbortStateNever == NoError

\* _checkAbortState
checkAbortState == IF abortFlag THEN Error("ABORTED", undefined) ELSE NoError

\* _writePacket for packets[k]: the abort check, then packetWriter.writePacket.
writePacket ==
    /\ pc = "writePacket"
    /\ IF checkAbortState # NoError
       THEN /\ error' = checkAbortState
            /\ pc' = "catch"
            /\ UNCHANGED written
       ELSE /\ written' = Append(written, packets[k])
            /\ pc' = "writing"
            /\ UNCHANGED error
    /\ UNCHANGED <<objectVars, notifications, listeners, inputs, packets, packetWriter, k,
                   progressInfo, notification, settled, timerVars, leaked, seen, readAt, countVars>>

\* Mutant of the reduce chain: it stops one packet short.
nextPacketShort == IF k + 1 < Len(packets) THEN "writePacket" ELSE "then"

\* Where the reduce chain goes once packets[k] is through.
nextPacket == IF k < Len(packets) THEN "writePacket" ELSE "then"

\* Mutant of the completion of a packet write: a set abort flag interrupts it.
writePacketResolvedUnlessAborted ==
    /\ pc = "writing"
    /\ packetWriter' = packetWritten(packetWriter, packets[k])
    /\ progressInfo' = progressOf(packetWriter, packets[k])
    /\ IF abortFlag
       THEN pc' = "catch" /\ error' = Error("ABORTED", undefined) /\ UNCHANGED k
       ELSE /\ UNCHANGED error
            /\ IF progressOf(packetWriter, packets[k]) # NoProgress
               THEN pc' = "progress" /\ UNCHANGED k
               ELSE pc' = nextPacket /\ k' = (IF k < Len(packets) THEN k + 1 ELSE k)
    /\ UNCHANGED <<objectVars, notifications, listeners, inputs, packets, written, notification,
                   settled, timerVars, leaked, seen, readAt, countVars>>

\* Mutant of the completion of a packet write: the chain moves on without
\* validating the checkpoint.
writePacketResolvedUnvalidated ==
    /\ pc = "writing"
    /\ packetWriter' = packetWritten(packetWriter, packets[k])
    /\ progressInfo' = progressOf(packetWriter, packets[k])
    /\ pc' = nextPacket
    /\ k' = (IF k < Len(packets) THEN k + 1 ELSE k)
    /\ UNCHANGED <<objectVars, notifications, listeners, inputs, packets, written, notification,
                   error, settled, timerVars, leaked, seen, readAt, countVars>>

\* packetWriter.writePacket resolves: with a checkpoint, and the chain validates
\* it, or with nothing, and the chain moves on.
writePacketResolved ==
    /\ pc = "writing"
    /\ packetWriter' = packetWritten(packetWriter, packets[k])
    /\ progressInfo' = progressOf(packetWriter, packets[k])
    /\ IF progressOf(packetWriter, packets[k]) # NoProgress
       THEN pc' = "progress" /\ UNCHANGED k
       ELSE pc' = nextPacket /\ k' = (IF k < Len(packets) THEN k + 1 ELSE k)
    /\ UNCHANGED <<objectVars, notifications, listeners, inputs, packets, written, notification,
                   error, settled, timerVars, leaked, seen, readAt, countVars>>

\* Mutant of a failed packet write: the packet is tried again.
writePacketRejectedRetried ==
    /\ pc = "writing"
    /\ error' = Error("WRITE_FAILED", undefined)
    /\ pc' = "writePacket"
    /\ UNCHANGED <<objectVars, notifications, listeners, callVars, k, progressInfo, notification,
                   settled, timerVars, leaked, seen, readAt, countVars>>

\* packetWriter.writePacket rejects: the characteristic write failed.
writePacketRejected ==
    /\ pc = "writing"
    /\ error' = Error("WRITE_FAILED", undefined)
    /\ pc' = "catch"
    /\ UNCHANGED <<objectVars, notifications, listeners, callVars, k, progressInfo, notification,
                   settled, timerVars, leaked, seen, readAt, countVars>>

\* One run of wait() in _waitForNotification for the readNext of this call:
\* resolve with what _findNotification returns, reject with what it throws,
\* or set the poll timer again.
scan(opCode, view) ==
    LET f == findNotification(opCode, notifications)
    IN /\ notifications' = f.rest
       /\ pollDue' = FALSE
       /\ CASE f.kind = "value" ->
                 /\ notification' = f.value
                 /\ pc' = "validate"
                 /\ readAt' = Len(view) - Len(notifications) + f.taken
                 /\ UNCHANGED error
            [] f.kind = "throw" ->
                 /\ error' = f.error
                 /\ pc' = "catch"
                 /\ readAt' = Len(view) - Len(notifications) + f.taken
                 /\ UNCHANGED notification
            [] OTHER ->
                 /\ pc' = "reading"
                 /\ UNCHANGED <<notification, error, readAt>>

\* _validateProgress: readNext(CALCULATE_CRC) sets the timeout timer and runs
\* wait() once, synchronously.
validateProgress ==
    /\ pc = "progress"
    /\ elapsed' = 0
    /\ seen' = notifications
    /\ scan(CALCULATE_CRC, notifications)
    /\ UNCHANGED <<objectVars, listeners, callVars, k, progressInfo, settled, leaked, countVars>>

\* A poll interval passes while readNext is pending.
tick ==
    /\ pc = "reading"
    /\ ~pollDue
    /\ elapsed < TimeoutPolls
    /\ elapsed' = elapsed + 1
    /\ pollDue' = TRUE
    /\ UNCHANGED <<objectVars, notifications, listeners, pc, callVars, k, progressInfo,
                   notification, error, settled, leaked, seen, readAt, countVars>>

\* setTimeout(wait, pollInterval) fires.
wait ==
    /\ pc = "reading"
    /\ pollDue
    /\ scan(CALCULATE_CRC, seen)
    /\ UNCHANGED <<objectVars, listeners, callVars, k, progressInfo, settled, elapsed, leaked,
                   seen, countVars>>

\* Mutant of the timeout timer: readNext sets none.
timeoutNeverFired ==
    /\ FALSE
    /\ UNCHANGED vars

\* Mutant of the timeout timer: it fires without the timeout having passed.
timeoutFiredEarly ==
    /\ pc = "reading"
    /\ elapsed <= TimeoutPolls
    /\ error' = Error("NOTIFICATION_TIMEOUT", CALCULATE_CRC)
    /\ pc' = "catch"
    /\ leaked' = leaked + 1
    /\ pollDue' = FALSE
    /\ UNCHANGED <<objectVars, notifications, listeners, callVars, k, progressInfo, notification,
                   settled, elapsed, seen, readAt, countVars>>

\* The timeout timer of readNext fires while the race is undecided: the race
\* rejects, and nothing stops the poll loop, which goes on rescheduling itself.
\* (Once the race is decided the timer's reject changes nothing.)
timeoutFired ==
    /\ pc = "reading"
    /\ elapsed = TimeoutPolls
    /\ error' = Error("NOTIFICATION_TIMEOUT", CALCULATE_CRC)
    /\ pc' = "catch"
    /\ leaked' = leaked + 1
    /\ pollDue' = FALSE
    /\ UNCHANGED <<objectVars, notifications, listeners, callVars, k, progressInfo, notification,
                   settled, elapsed, seen, readAt, countVars>>

\* wait() of a poll loop whose readNext has timed out: it still shifts
\* notifications off the buffer, and ends when it finds one or throws.
leakedWait ==
    /\ leaked > 0
    /\ MacrotaskMayRun
    /\ LET f == findNotification(CALCULATE_CRC, notifications)
       IN /\ notifications' = f.rest
          /\ leaked' = IF f.kind \in {"value", "throw"} THEN leaked - 1 ELSE leaked
    /\ UNCHANGED <<objectVars, listeners, pc, callVars, k, progressInfo, notification, error,
                   settled, timerVars, seen, readAt, countVars>>

\* _validateOffset then _validateCrc32 on what readNext resolved with.
validateOffset(value, offset) ==
    IF arrayToInt(slice(value, 3, 7)) # offset
    THEN Error("INVALID_OFFSET", arrayToInt(slice(value, 3, 7)))
    ELSE NoError

validateCrc32(value, crc32) ==
    IF arrayToInt(slice(value, 7, 11)) # crc32
    THEN Error("INVALID_CRC", arrayToInt(slice(value, 7, 11)))
    ELSE NoError

\* Mutant of the validation: the CRC32 is not compared.
validatedOffsetOnly(value, progress) == validateOffset(value, progress.offset)

\* Mutant of the validation: the CRC32 is compared first.
validatedCrcFirst(value, progress) ==
    IF validateCrc32(value, progress.crc32) # NoError
    THEN validateCrc32(value, progress.crc32)
    ELSE validateOffset(value, progress.offset)

validated(value, progress) ==
    IF validateOffset(value, progress.offset) # NoError
    THEN validateOffset(value, progress.offset)
    ELSE validateCrc32(value, progress.crc32)

validate ==
    /\ pc = "validate"
    /\ IF validated(notification, progressInfo) # NoError
       THEN /\ error' = validated(notification, progressInfo)
            /\ pc' = "catch"
            /\ UNCHANGED k
       ELSE /\ pc' = nextPacket
            /\ k' = (IF k < Len(packets) THEN k + 1 ELSE k)
            /\ UNCHANGED error
    /\ elapsed' = 0
    /\ UNCHANGED <<objectVars, notifications, listeners, callVars, progressInfo, notification,
                   settled, pollDue, leaked, countVars>>
    /\ seen' = <<>>
    /\ readAt' = 0

\* stopListening: clear the store, remove one registration of the listener.
stopListening ==
    /\ notifications' = <<>>
    /\ listeners' = (IF listeners > 0 THEN listeners - 1 ELSE 0)
    /\ stops' = stops + 1

\* The then of writeObject: all packets are through.
writeObjectThen ==
    /\ pc = "then"
    /\ stopListening
    /\ settled' = [state |-> "resolved", offset |-> packetWriter.offset,
                   crc32 |-> packetWriter.crc32, error |-> NoError]
    /\ pc' = "done"
    /\ elapsed' = 0
    /\ UNCHANGED <<objectVars, callVars, k, progressInfo, notification, error, pollDue, leaked,
                   calls, starts, abortedEarly, abortedBefore>>
    /\ seen' = <<>>
    /\ readAt' = 0

\* Mutant of the catch of writeObject: it rethrows without stopping the queue.
writeObjectCatchNoStop ==
    /\ pc = "catch"
    /\ settled' = [state |-> "rejected", offset |-> undefined, crc32 |-> undefined,
                   error |-> error]
    /\ pc' = "done"
    /\ seen' = <<>>
    /\ readAt' = 0
    /\ elapsed' = 0
    /\ UNCHANGED <<objectVars, notifications, listeners, callVars, k, progressInfo, notification,
                   error, pollDue, leaked, countVars>>

\* Mutant of the catch of writeObject: a call that failed clears the abort flag.
writeObjectCatchClearsAbort ==
    /\ pc = "catch"
    /\ stopListening
    /\ abortFlag' = FALSE
    /\ settled' = [state |-> "rejected", offset |-> undefined, crc32 |-> undefined,
                   error |-> error]
    /\ pc' = "done"
    /\ elapsed' = 0
    /\ UNCHANGED <<mtuSize, prn, callVars, k, progressInfo, notification, error, pollDue, leaked,
                   calls, starts, abortedEarly, abortedBefore>>
    /\ seen' = <<>>
    /\ readAt' = 0

\* The catch of writeObject: stop listening, rethrow.
writeObjectCatch ==
    /\ pc = "catch"
    /\ stopListening
    /\ settled' = [state |-> "rejected", offset |-> undefined, crc32 |-> undefined,
                   error |-> error]
    /\ pc' = "done"
    /\ elapsed' = 0
    /\ UNCHANGED <<objectVars, callVars, k, progressInfo, notification, error, pollDue, leaked,
                   calls, starts, abortedEarly, abortedBefore>>
    /\ seen' = <<>>
    /\ readAt' = 0

\* ------------------------------------------------------------ specification
Init ==
    /\ abortFlag = FALSE
    /\ mtuSize = DEFAULT_MTU_SIZE
    /\ prn = undefined
    /\ notifications = <<>>
    /\ listeners = 0
    /\ pc = "idle"
    /\ data = <<>>
    /\ packets = <<>>
    /\ k = 1
    /\ written = <<>>
    /\ packetWriter = newPacketWriter(undefined, undefined, undefined)
    /\ progressInfo = NoProgress
    /\ notification = <<>>
    /\ error = NoError
    /\ settled = Unsettled
    /\ elapsed = 0
    /\ pollDue = FALSE
    /\ leaked = 0
    /\ seen = <<>>
    /\ readAt = 0
    /\ mtuUsed = DEFAULT_MTU_SIZE
    /\ resume = <<undefined, undefined>>
    /\ abortedEarly = FALSE
    /\ abortedBefore = FALSE
    /\ calls = 0
    /\ starts = 0
    /\ stops = 0

Next ==
    \/ \E n \in PrnValues : setPrn(n)
    \/ \E n \in MtuSizes : setMtuSize(n)
    \/ abort
    \/ \E d \in DataSet, r \in Resumes : writeObject(d, r[1], r[2])
    \/ writePacket
    \/ writePacketResolved
    \/ writePacketRejected
    \/ validateProgress
    \/ tick
    \/ wait
    \/ timeoutFired
    \/ leakedWait
    \/ validate
    \/ writeObjectThen
    \/ writeObjectCatch
    \/ \E n \in Emitted : onNotificationReceived(n)

Spec == Init /\ [][Next]_vars

\* The steps the call in flight takes by itself: promise reactions, the
\* completion of a packet write, the timers of readNext.
CallStep ==
    \/ writePacket
    \/ writePacketResolved
    \/ writePacketRejected
    \/ validateProgress
    \/ tick
    \/ wait
    \/ timeoutFired
    \/ validate
    \/ writeObjectThen
    \/ writeObjectCatch

\* The event loop runs queued reactions, every packet write completes and every
\* timer that is set fires.
FairSpec == Spec /\ WF_vars(CallStep)

\* ------------------------------------------------------------------ claims
\* How _parseNotification's three-way test classifies a notification, stated
\* on the notification alone.
IsResponse(n) == n.instanceId = controlPointCharacteristicId /\ At(n.value, 0) = RESPONSE
Matches(opCode, n) == IsResponse(n) /\ At(n.value, 1) = opCode /\ At(n.value, 2) = SUCCESS
Failed(opCode, n) == IsResponse(n) /\ At(n.value, 1) = opCode /\ At(n.value, 2) # SUCCESS
Unexpected(opCode, n) == IsResponse(n) /\ At(n.value, 1) # opCode
Ignored(n) == ~IsResponse(n)

\* Position in buf of the first notification that is a control-point response, 0 if none.
FirstResponse(buf) ==
    LET S == {i \in 1..Len(buf) : IsResponse(buf[i])}
    IN IF S = {} THEN 0 ELSE CHOOSE i \in S : \A j \in S : i <= j

\* Notifications of seen that are no longer in the buffer.
Taken == Len(seen) - Len(notifications)

\* A step in which the readNext of the call scans the buffer.
ReadScan == validateProgress \/ wait

ReadErrors == {"NOTIFICATION_TIMEOUT", "UNEXPECTED_NOTIFICATION", "COMMAND_ERROR"}

\* C1: readNext returns the first notification, in arrival order, that is a
\* successful control-point response to opCode: when it has resolved, what it
\* resolved with is that notification, and while it is pending no such
\* notification has left the buffer unreturned.
C1_FirstMatchReturned ==
    /\ pc = "validate" =>
          /\ readAt \in 1..Len(seen)
          /\ Matches(CALCULATE_CRC, seen[readAt])
          /\ notification = seen[readAt].value
          /\ \A j \in 1..(readAt - 1) : ~Matches(CALCULATE_CRC, seen[j])
    /\ pc = "reading" => \A j \in 1..Taken : ~Matches(CALCULATE_CRC, seen[j])

C3_CommandErrorAtOnce ==
    [][LET i == FirstResponse(notifications)
       IN (ReadScan /\ i # 0 /\ Failed(CALCULATE_CRC, notifications[i]))
          => /\ pc' = "catch"
             /\ error' = Error("COMMAND_ERROR", At(notifications[i].value, 2))
             /\ notifications' = SubSeq(notifications, i + 1, Len(notifications))]_vars

C3_Witness ==
    /\ pc = "catch"
    /\ error.code = "COMMAND_ERROR"
    /\ Failed(CALCULATE_CRC, seen[readAt])
    /\ Len(notifications) > 0

\* C4: a scan of readNext that comes to a control-point response to another
\* operation rejects, in that same step, with UnexpectedNotification, whatever
\* is queued behind it.
C4_UnexpectedAtOnce ==
    [][LET i == FirstResponse(notifications)
       IN (ReadScan /\ i # 0 /\ Unexpected(CALCULATE_CRC, notifications[i]))
          => /\ pc' = "catch"
             /\ error'.code = "UNEXPECTED_NOTIFICATION"
             /\ notifications' = SubSeq(notifications, i + 1, Len(notifications))]_vars

C4_Witness ==
    /\ pc = "catch"
    /\ error.code = "UNEXPECTED_NOTIFICATION"
    /\ Len(notifications) > 0
    /\ Matches(CALCULATE_CRC, notifications[1])

\* C5: readNext rejects with UnexpectedNotification or CommandError only on a
\* control-point notification that carries the response marker; notifications
\* of other characteristics or with another marker are passed over.
C5_OnlyResponsesFail ==
    (pc = "catch" /\ error.code \in {"UNEXPECTED_NOTIFICATION", "COMMAND_ERROR"})
    => /\ readAt \in 1..Len(seen)
       /\ IsResponse(seen[readAt])
       /\ \A j \in (Taken + 1)..Len(seen) : seen[j] = notifications[j - Taken]

C5_Witness ==
    /\ pc = "catch"
    /\ error.code \in {"UNEXPECTED_NOTIFICATION", "COMMAND_ERROR"}
    /\ readAt = MaxArrivals
    /\ \A j \in 1..(readAt - 1) : Ignored(seen[j])

\* C6: a writeObject call stops the queue exactly once however it ends: while
\* it is in flight the queue listens and has not been stopped, and once it has
\* settled the queue was stopped once, holds no registration on the adapter
\* and its buffer is empty.
C6_StoppedOnce ==
    /\ pc \notin {"idle", "done"} => (starts = 1 /\ stops = 0 /\ listeners = 1)
    /\ pc = "done" => (starts = 1 /\ stops = 1 /\ listeners = 0 /\ notifications = <<>>)

C6_Witness ==
    /\ pc = "done"
    /\ settled.state = "rejected"
    /\ settled.error.code = "NOTIFICATION_TIMEOUT"
    /\ stops = 1

C8_CheckpointDecides ==
    /\ [][validate =>
            LET responseOffset == arrayToInt(slice(notification, 3, 7))
                responseCrc == arrayToInt(slice(notification, 7, 11))
            IN /\ (responseOffset = progressInfo.offset /\ responseCrc = progressInfo.crc32)
                  => /\ error' = NoError
                     /\ IF k < Len(packets)
                        THEN pc' = "writePacket" /\ k' = k + 1
                        ELSE pc' = "then"
               /\ responseOffset # progressInfo.offset
                  => (pc' = "catch" /\ error'.code = "INVALID_OFFSET")
               /\ (responseOffset = progressInfo.offset /\ responseCrc # progressInfo.crc32)
                  => (pc' = "catch" /\ error'.code = "INVALID_CRC")]_vars
    /\ []((pc \in {"catch", "done"} /\ error.code \in {"INVALID_OFFSET", "INVALID_CRC"})
          => written = SubSeq(packets, 1, k))

C8_Witness ==
    /\ pc = "done"
    /\ settled.error.code = "INVALID_CRC"
    /\ k < Len(packets)
    /\ written = SubSeq(packets, 1, k)

RECURSIVE Flatten(_)
Flatten(seqs) == IF Len(seqs) = 0 THEN <<>> ELSE Head(seqs) \o Flatten(Tail(seqs))

Ceil(l, m) == (l + m - 1) \div m

\* C9: a writeObject call that resolved on data of length L with MTU M handed
\* the writer ceil(L/M) packets, the segments in their order, each of at most
\* M bytes, which concatenate to the data.
C9_PacketsCoverData ==
    (pc = "done" /\ settled.state = "resolved")
    => /\ Len(written) = Ceil(Len(data), mtuUsed)
       /\ \A i \in 1..Len(written) : Len(written[i]) \in 1..mtuUsed
       /\ Flatten(written) = data

C9_Witness ==
    /\ pc = "done"
    /\ settled.state = "resolved"
    /\ Len(data) = MaxLen
    /\ Len(written) > 1
    /\ Len(written[Len(written)]) < mtuUsed

\* The (offset, crc32) a call resumes from: its arguments, 0 for one left out.
ResumedFrom ==
    [offset |-> IF resume[1] = undefined THEN 0 ELSE resume[1],
     crc32  |-> IF resume[2] = undefined THEN 0 ELSE resume[2]]

\* C10: the packet writer of a call starts at the call's (offset, crc32); each
\* checkpoint it reports is that state moved on by the packets written so far;
\* a call that resolves does so with the state moved on by all the data, its
\* offset the starting offset plus the length of the data.
C10_ResumesFromArguments ==
    /\ (pc \notin {"idle"} /\ written = <<>>)
       => (packetWriter.offset = ResumedFrom.offset /\ packetWriter.crc32 = ResumedFrom.crc32)
    /\ pc \in {"progress", "reading", "validate"}
       => /\ progressInfo.offset = ResumedFrom.offset + Len(Flatten(SubSeq(written, 1, k)))
          /\ progressInfo.crc32 = crc32Accumulate(ResumedFrom.crc32, Flatten(SubSeq(written, 1, k)))
    /\ (pc = "done" /\ settled.state = "resolved")
       => /\ settled.offset = ResumedFrom.offset + Len(data)
          /\ settled.crc32 = crc32Accumulate(ResumedFrom.crc32, data)

C10_Witness ==
    /\ pc = "done"
    /\ settled.state = "resolved"
    /\ resume[1] = 2
    /\ Len(data) = MaxLen
    /\ progressInfo # NoProgress

\* Positions of the call between the dispatch of packet k and the end of its
\* checkpoint validation.
PacketInFlight == {"writing", "progress", "reading", "validate"}

\* C11: with the abort flag set, a step of packet k's write or validation has
\* its usual outcome (it raises no Aborted and dispatches nothing; a write that
\* completes goes on to its checkpoint or to the next position, a validation
\* that agrees goes on to the next position); the call then rejects with
\* Aborted at the abort check of packet k+1, with packets 1..k written and no
\* more, and resolves if there is no packet k+1.
C11_AbortWaitsForPacket ==
    [][abortFlag =>
         /\ pc \in PacketInFlight => (error'.code # "ABORTED" /\ written' = written)
         /\ (pc = "writing" /\ pc' # pc /\ error' = error)
            => /\ packetWriter' = packetWritten(packetWriter, packets[k])
               /\ pc' = (IF progressInfo' # NoProgress THEN "progress"
                         ELSE IF k < Len(packets) THEN "writePacket" ELSE "then")
         /\ (pc = "validate" /\ pc' # pc /\ error' = error)
            => pc' = (IF k < Len(packets) THEN "writePacket" ELSE "then")
         /\ (pc = "writePacket" /\ pc' # pc)
            => /\ pc' = "catch"
               /\ error'.code = "ABORTED"
               /\ written' = written
               /\ written = SubSeq(packets, 1, k - 1)
         /\ (pc = "then" /\ pc' # pc) => settled'.state = "resolved"]_vars

\* abort() came while packet 1 was in flight (it was dispatched, so the flag was
\* clear at its abort check), its checkpoint agrees and packet 2 is still to come.
C11_Witness ==
    /\ pc = "validate"
    /\ abortFlag
    /\ k = 1
    /\ Len(packets) = 2
    /\ validated(notification, progressInfo) = NoError

\* C12: a writeObject call splits its data by the _mtuSize and gives its packet
\* writer the _prn that are current when it starts; while it is in flight no
\* step, setMtuSize and setPrn included, changes its packets or the PRN of its
\* writer, and every packet it dispatches is the next one of that split.
C12_SettingsFixedAtStart ==
    [][/\ (pc \in {"idle", "done"} /\ pc' \notin {"idle", "done"})
          => (packets' = splitArray(data', mtuSize) /\ packetWriter'.prn = prn)
       /\ pc \notin {"idle", "done"}
          => /\ packets' = packets
             /\ data' = data
             /\ packetWriter'.prn = packetWriter.prn
             /\ \/ written' = written
                \/ k \in 1..Len(packets) /\ written' = Append(written, packets[k])]_vars

\* setMtuSize and setPrn came while the one packet of the call was in flight:
\* the packet is the whole data and its write reported no checkpoint.
C12_Witness ==
    /\ pc = "then"
    /\ mtuUsed = DEFAULT_MTU_SIZE
    /\ mtuSize < Len(data)
    /\ written = <<data>>
    /\ packetWriter.prn = undefined
    /\ prn = 1
    /\ progressInfo = NoProgress

\* Bytes handed to packetWriter.writePacket whose write has not completed.
BytesInFlight ==
    Len(Flatten(written)) - (packetWriter.offset - ResumedFrom.offset)

\* C13: the bytes in flight are those of one packet at most, and only while
\* its write is pending (or after it failed); packet k is dispatched only when
\* packets 1..k-1 have all completed and, if the last of them reported a
\* checkpoint, readNext has resolved with a response that agrees with it.
C13_OnePacketAtATime ==
    /\ [](IF pc = "writing" \/ error.code = "WRITE_FAILED"
          THEN BytesInFlight = Len(written[Len(written)])
          ELSE BytesInFlight = 0)
    /\ [][Len(written') > Len(written)
          => /\ pc = "writePacket" /\ pc' = "writing"
             /\ Len(written) = k - 1
             /\ written' = Append(written, packets[k])
             /\ BytesInFlight = 0
             /\ (k > 1 /\ progressInfo # NoProgress)
                => /\ progressInfo.offset = packetWriter.offset
                   /\ progressInfo.crc32 = packetWriter.crc32
                   /\ validated(notification, progressInfo) = NoError]_vars

C13_Witness ==
    /\ pc = "writing"
    /\ k = 2
    /\ Len(written) = 2
    /\ progressInfo # NoProgress
    /\ BytesInFlight = Len(packets[2])

\* Poll loops of _waitForNotification that are still rescheduling themselves.
PollLoops == leaked + (IF pc = "reading" THEN 1 ELSE 0)

\* C14: readNext cancels the loser of its race: no poll loop outlives the
\* readNext that started it, so at most one poll loop drains the buffer, and
\* none when no readNext is pending.
C14_LoserCancelled ==
    /\ PollLoops <= 1
    /\ pc # "reading" => PollLoops = 0

\* buf is what is left of old once notifications were taken from its head.
IsSuffix(buf, old) ==
    /\ Len(buf) <= Len(old)
    /\ buf = SubSeq(old, Len(old) - Len(buf) + 1, Len(old))

\* C15: the buffer belongs to one listening session: it is empty while the
\* queue is not subscribed; a step either appends a delivered notification at
\* its tail or takes notifications from its head; and only the readNext of the
\* session (or stopListening) takes from it, never a poll loop of a readNext
\* of an earlier session.
C15_SessionScoped ==
    /\ [](listeners = 0 => notifications = <<>>)
    /\ [][\/ \E n \in Emitted : notifications' = Append(notifications, n)
          \/ IsSuffix(notifications', notifications)]_vars
    /\ [][Len(notifications') < Len(notifications)
          => pc \in {"progress", "reading", "then", "catch"}]_vars
    /\ [][leakedWait => UNCHANGED vars]_vars

\* new is old with notifications appended at its tail, or old itself.
IsPrefix(old, new) ==
    /\ Len(old) <= Len(new)
    /\ old = SubSeq(new, 1, Len(old))

\* C16: a notification delivered while the queue listens is buffered whether or
\* not a readNext is pending, and stays buffered until a readNext of the call
\* is issued: while a packet write is in flight nothing leaves the buffer, and
\* the readNext issued next resolves with a successful response found there
\* ahead of any other control-point response.
C16_BufferedUntilRead ==
    /\ [][\A n \in Emitted :
            (onNotificationReceived(n) /\ listeners = 1)
            => notifications' = Append(notifications, n)]_vars
    /\ [][(pc \in {"writePacket", "writing"})
          => IsPrefix(notifications, notifications')]_vars
    /\ [][LET i == FirstResponse(notifications)
          IN (validateProgress /\ i # 0 /\ Matches(CALCULATE_CRC, notifications[i]))
             => /\ pc' = "validate"
                /\ notification' = notifications[i].value]_vars

\* C17: the first error of a writeObject call is its last step but one: it
\* takes the call to its catch, from where the only step is the rejection of
\* writeObject with that error; no packet is dispatched and no readNext issued
\* after it, and the packets dispatched are at all times a prefix of the
\* segmentation, each handed over once.
C17_FirstErrorIsFatal ==
    /\ [](written = SubSeq(packets, 1, Len(written)))
    /\ []((pc = "catch") <=> (error # NoError /\ settled.state = "pending"))
    /\ [][error # NoError /\ pc \notin {"idle", "done"}
          => /\ error' = error
             /\ written' = written
             /\ pc' \in {"catch", "done"}
             /\ pc' = "done" => (settled'.state = "rejected" /\ settled'.error = error)]_vars
    /\ [](pc = "done" => (settled.state = "rejected" <=> error # NoError))

C17_Witness ==
    /\ pc = "done"
    /\ settled.state = "rejected"
    /\ settled.error.code = "WRITE_FAILED"
    /\ Len(written) = 1
    /\ Len(packets) = 2

\* C18 as stated: nothing clears the abort flag, and a writeObject call made
\* with the flag set rejects with Aborted and dispatches no packet, whatever
\* its data.
C18_AbortedForGood ==
    /\ [][abortFlag => abortFlag']_vars
    /\ []((pc = "done" /\ abortedBefore)
          => (settled.state = "rejected" /\ settled.error.code = "ABORTED" /\ written = <<>>))

\* C18 amended: nothing clears the abort flag, and a writeObject call made with
\* the flag set dispatches no packet; it rejects with Aborted when its data is
\* not empty and resolves, at its starting offset and CRC32, when it is empty.
C18_AbortedForGoodUnlessEmpty ==
    /\ [][abortFlag => abortFlag']_vars
    /\ [](abortedBefore => (abortFlag /\ written = <<>>))
    /\ []((pc = "done" /\ abortedBefore)
          => /\ Len(data) > 0 => (settled.state = "rejected" /\ settled.error.code = "ABORTED")
             /\ Len(data) = 0 => /\ settled.state = "resolved"
                                 /\ settled.offset = ResumedFrom.offset
                                 /\ settled.crc32 = ResumedFrom.crc32)

\* The second call on an object aborted before it: rejected with Aborted,
\* nothing written.
C18_Witness ==
    /\ pc = "done"
    /\ calls = MaxCalls
    /\ abortedBefore
    /\ Len(data) = MaxLen
    /\ settled.error.code = "ABORTED"
    /\ written = <<>>

\* Offset and CRC32 of the response readNext resolved with.
ResponseOffset == arrayToInt(slice(notification, 3, 7))
ResponseCrc == arrayToInt(slice(notification, 7, 11))

\* C19: a response that differs from the checkpoint in offset and in CRC32
\* makes the call fail with InvalidOffset; a call that failed with InvalidCrc
\* had a response whose offset agreed and whose CRC32 did not, and one that
\* failed with InvalidOffset a response whose offset did not agree.
C19_OffsetBeforeCrc ==
    /\ [][(validate /\ ResponseOffset # progressInfo.offset /\ ResponseCrc # progressInfo.crc32)
          => (pc' = "catch" /\ error' = Error("INVALID_OFFSET", ResponseOffset))]_vars
    /\ [](error.code = "INVALID_CRC"
          => (ResponseOffset = progressInfo.offset /\ ResponseCrc # progressInfo.crc32))
    /\ [](error.code = "INVALID_OFFSET" => ResponseOffset # progressInfo.offset)

C19_Witness ==
    /\ pc = "catch"
    /\ error.code = "INVALID_OFFSET"
    /\ ResponseOffset # progressInfo.offset
    /\ ResponseCrc # progressInfo.crc32

\* C20: a writeObject call in flight eventually settles, resolved with an
\* offset and a CRC32 or rejected with one error, whatever the adapter emits;
\* its readNext is never pending past the timeout ceiling.
C20_EventuallySettles ==
    /\ (pc \notin {"idle", "done"}) ~> (pc = "done")
    /\ [](pc = "done"
          => \/ /\ settled.state = "resolved"
                /\ settled.offset # undefined /\ settled.crc32 # undefined
                /\ settled.error = NoError
             \/ /\ settled.state = "rejected"
                /\ settled.error # NoError)
    /\ [](pc = "reading" => elapsed <= TimeoutPolls)

\* Both calls ended in NotificationTimeout with the device silent or sending
\* only notifications readNext passes over.
C20_Witness ==
    /\ pc = "done"
    /\ calls = MaxCalls
    /\ leaked = MaxCalls
    /\ settled.state = "rejected"
    /\ settled.error.code = "NOTIFICATION_TIMEOUT"

====
